---- MODULE Spec2Model ----
(***************************************************************************)
(* A model of the sticker extractor (extractor-rust): the generic flood    *)
(* fill, the small-component cleanup pass, the sticker enumerator, the     *)
(* marker finder and the foreground segmentation step.                     *)
(*                                                                         *)
(* A pixel coordinate XY is the tuple <<x, y>>.  An image is the record    *)
(* [w, h, base, px]: width, height, the value of every pixel that was      *)
(* never written, and the written pixels as a function from coordinates    *)
(* to values.  A pixel value is "transparent" (RGBA 0,0,0,0) or the name   *)
(* of an opaque colour.                                                    *)
(*                                                                         *)
(* The f32 products of the source (0.02 * W * H, 0.0001 * W * H, 0.2 * W,  *)
(* 0.01 * W) are modelled as exact fractions: the f32 constant differs     *)
(* from the decimal by a relative error below 2^-25, so for images of      *)
(* fewer than 2^24 pixels the rounded product compares with an integer     *)
(* exactly as the exact product does.                                      *)
(***************************************************************************)
EXTENDS Integers, Sequences, FiniteSets, TLC

VARIABLES
    pc,        \* position of the running operation
    img,       \* the pixel buffer
    img0,      \* the pixel buffer as it was when the operation started
    match,     \* the pixels at which the caller's predicate holds
    seed,      \* flood_fill: the xy argument
    queue,     \* flood_fill: the worklist (a Vec used as a stack)
    pixels,    \* flood_fill: the result set
    evals,     \* flood_fill: how often the predicate was called, per pixel
    cursor,    \* index of the loop iteration an operation is at
    skip,      \* cleanup: the set of pixels already visited
    areas,     \* IdentifiedStickers::new: the Vec<Area>
    assigned,  \* IdentifiedStickers::new: stickers_assigned_to_columns
    stickers,  \* IdentifiedStickers::new: the Vec<IdentifiedSticker>
    current_row, \* IdentifiedStickers::new: current_row
    markers,   \* Markers::find: the areas located so far, by corner
    result,    \* the outcome of the operation
    args,      \* the arguments of the function that is called
    ret        \* the value the function returned

vars == <<pc, img, img0, match, seed, queue, pixels, evals, cursor, skip,
          areas, assigned, stickers, current_row, markers, result, args, ret>>

----------------------------------------------------------------------------
(* Bounds of the flood fill specification. *)
MaxW == 3
MaxH == 2

----------------------------------------------------------------------------
(* Arithmetic helpers. *)
Abs(n) == IF n < 0 THEN -n ELSE n
Max(a, b) == IF a >= b THEN a ELSE b
SetMin(S) == CHOOSE m \in S : \A n \in S : m <= n
SetMax(S) == CHOOSE m \in S : \A n \in S : m >= n

----------------------------------------------------------------------------
(* Images. *)
TRANSPARENT == "transparent"

Grid(image) == (0 .. image.w - 1) \X (0 .. image.h - 1)

NewImage(w, h, base) == [w |-> w, h |-> h, base |-> base, px |-> <<>>]

GetPixel(image, xy) ==
    IF xy \in DOMAIN image.px THEN image.px[xy] ELSE image.base

PutPixel(image, xy, value) ==
    [image EXCEPT !.px = [p \in (DOMAIN image.px) \cup {xy} |->
                             IF p = xy THEN value ELSE image.px[p]]]

RECURSIVE PutPixels(_, _, _)
PutPixels(image, S, value) ==
    IF S = {} THEN image
    ELSE LET xy == CHOOSE p \in S : TRUE
         IN  PutPixels(PutPixel(image, xy, value), S \ {xy}, value)

IsTransparent(image, xy) == GetPixel(image, xy) = TRANSPARENT

----------------------------------------------------------------------------
(* flood_fill.  The neighbours pushed for an accepted pixel, in the order  *)
(* of the four ifs: left, up, right, down.                                 *)
FloodPushed_NoDown(image, xy) ==
       (IF xy[1] > 0 THEN << <<xy[1] - 1, xy[2]>> >> ELSE <<>>)
    \o (IF xy[2] > 0 THEN << <<xy[1], xy[2] - 1>> >> ELSE <<>>)
    \o (IF xy[1] < image.w - 1 THEN << <<xy[1] + 1, xy[2]>> >> ELSE <<>>)

FloodPushed(image, xy) ==
       (IF xy[1] > 0 THEN << <<xy[1] - 1, xy[2]>> >> ELSE <<>>)
    \o (IF xy[2] > 0 THEN << <<xy[1], xy[2] - 1>> >> ELSE <<>>)
    \o (IF xy[1] < image.w - 1 THEN << <<xy[1] + 1, xy[2]>> >> ELSE <<>>)
    \o (IF xy[2] < image.h - 1 THEN << <<xy[1], xy[2] + 1>> >> ELSE <<>>)

QueueTop(q) == q[Len(q)]
QueuePop(q) == SubSeq(q, 1, Len(q) - 1)

(* One iteration of the loop on the pair [q, set]; the predicate is given *)
(* as the set M of the pixels at which it holds.                           *)
FloodIterate(image, st, M) ==
    LET xy == QueueTop(st.q)
        rest == QueuePop(st.q)
    IN  IF xy \in st.set THEN [q |-> rest, set |-> st.set]
        ELSE IF xy \notin M THEN [q |-> rest, set |-> st.set]
        ELSE [q |-> rest \o FloodPushed(image, xy), set |-> st.set \cup {xy}]

(* The loop, for the callers that use flood_fill as one call: iterations   *)
(* until the queue is empty.  n bounds the iterations that are left; the   *)
(* halving keeps the evaluation shallow.                                   *)
RECURSIVE FloodLoop(_, _, _, _)
FloodLoop(image, st, M, n) ==
    IF st.q = <<>> THEN st
    ELSE IF n <= 1 THEN FloodIterate(image, st, M)
    ELSE FloodLoop(image, FloodLoop(image, st, M, n \div 2), M, n - n \div 2)

(* Every iteration pops one entry, and only the 1 + 4 |M| entries of the   *)
(* seed and of the pushes of accepted pixels are ever in the queue.        *)
FloodFill(image, xy, M) ==
    FloodLoop(image, [q |-> <<xy>>, set |-> {}], M, 4 * Cardinality(M) + 1).set

----------------------------------------------------------------------------
(* The specification of one flood_fill call, one loop iteration a step.    *)
NoEvals(image) == [p \in Grid(image) |-> 0]

InitFlood ==
    \E w \in 1 .. MaxW, h \in 1 .. MaxH :
        LET image == NewImage(w, h, "opaque")
        IN  /\ img = image
            /\ img0 = image
            /\ match \in SUBSET Grid(image)
            /\ seed \in Grid(image)
            /\ queue = <<seed>>
            /\ pixels = {}
            /\ evals = NoEvals(image)
            /\ pc = "loop"
            /\ cursor = 0
            /\ skip = {}
            /\ areas = <<>>
            /\ assigned = <<>>
            /\ stickers = <<>>
            /\ current_row = 0
            /\ markers = <<>>
            /\ result = "none"
            /\ args = <<>>
            /\ ret = <<>>

FloodRest == <<img, img0, match, seed, cursor, skip, areas, assigned,
               stickers, current_row, markers, result, args, ret>>

(* let Some(xy) = queue.pop() else break *)
FloodBreak ==
    /\ pc = "loop"
    /\ queue = <<>>
    /\ pc' = "filled"
    /\ UNCHANGED <<queue, pixels, evals>>
    /\ UNCHANGED FloodRest

(* if pixels.contains(&xy) continue *)
FloodSeen_NoPop ==
    /\ pc = "loop"
    /\ queue # <<>>
    /\ QueueTop(queue) \in pixels
    /\ queue' = queue
    /\ UNCHANGED <<pc, pixels, evals>>
    /\ UNCHANGED FloodRest

FloodSeen ==
    /\ pc = "loop"
    /\ queue # <<>>
    /\ QueueTop(queue) \in pixels
    /\ queue' = QueuePop(queue)
    /\ UNCHANGED <<pc, pixels, evals>>
    /\ UNCHANGED FloodRest

(* if !match_color(&xy, &color) continue *)
FloodReject ==
    /\ pc = "loop"
    /\ queue # <<>>
    /\ QueueTop(queue) \notin pixels
    /\ QueueTop(queue) \notin match
    /\ evals' = [evals EXCEPT ![QueueTop(queue)] = @ + 1]
    /\ queue' = QueuePop(queue)
    /\ UNCHANGED <<pc, pixels>>
    /\ UNCHANGED FloodRest

(* pixels.insert(xy), then the four pushes *)
FloodAccept ==
    /\ pc = "loop"
    /\ queue # <<>>
    /\ QueueTop(queue) \notin pixels
    /\ QueueTop(queue) \in match
    /\ evals' = [evals EXCEPT ![QueueTop(queue)] = @ + 1]
    /\ pixels' = pixels \cup {QueueTop(queue)}
    /\ queue' = QueuePop(queue) \o FloodPushed(img, QueueTop(queue))
    /\ UNCHANGED pc
    /\ UNCHANGED FloodRest

NextFlood == FloodBreak \/ FloodSeen \/ FloodReject \/ FloodAccept

Spec == InitFlood /\ [][NextFlood]_vars

----------------------------------------------------------------------------
(* 4-connectivity, stated without the worklist: the least set that holds   *)
(* the start pixels and every pixel of M next to one of its members.       *)
Neighbours(p) ==
    {<<p[1] - 1, p[2]>>, <<p[1] + 1, p[2]>>, <<p[1], p[2] - 1>>, <<p[1], p[2] + 1>>}

(* The closure of S in M under 4-neighbour steps; front is the part of S   *)
(* whose neighbours have not been looked at yet.                           *)
RECURSIVE Closure(_, _, _)
Closure(front, S, M) ==
    LET more == (UNION {Neighbours(p) : p \in front} \cap M) \ S
    IN  IF more = {} THEN S ELSE Closure(more, S \cup more, M)

Reachable(xy, M) == IF xy \in M THEN Closure({xy}, {xy}, M) ELSE {}

(* C1: when flood_fill returns, the result is exactly the set of pixels    *)
(* reachable from the seed by 4-neighbour steps through in-bounds pixels   *)
(* that satisfy the predicate; it is empty when the seed fails the         *)
(* predicate, and every returned pixel satisfies it and is in bounds.      *)
C1_FloodFillIsReachableSet ==
    pc = "filled" =>
        /\ pixels = Reachable(seed, match \cap Grid(img))
        /\ (seed \notin match => pixels = {})
        /\ pixels \subseteq match
        /\ pixels \subseteq Grid(img)

C1_Witness ==
    /\ pc = "filled"
    /\ Cardinality(pixels) >= 3
    /\ match \ pixels # {}
    /\ \E p \in pixels : p[1] # seed[1] /\ p[2] # seed[2]

----------------------------------------------------------------------------
(* is_at_least_this_much_of_image, the threshold given as num / den.       *)
IsAtLeast_Strict(n, image, num, den) == n * den > image.w * image.h * num

IsAtLeastThisMuchOfImage(n, image, num, den) ==
    n * den >= image.w * image.h * num

(* BACKGROUND_CLEANUP_FACTOR = 0.02 *)
BACKGROUND_CLEANUP_FACTOR_NUM == 2
BACKGROUND_CLEANUP_FACTOR_DEN == 100

----------------------------------------------------------------------------
(* The small-component cleanup pass of extract: the double loop over ix    *)
(* and iy, one iteration a step; cursor = ix * height + iy.                *)

(* Bounds: the image is CleanW x CleanH, transparent but for a window of   *)
(* WinW x WinH pixels whose pixels are opaque or not, in every way.        *)
CleanW == 15
CleanH == 10
WinW == 3
WinH == 2

CursorXY(image, c) == <<c \div image.h, c % image.h>>

(* The pixels at which the predicate !color.is_transparent() holds. *)
Opaque(image) ==
    IF image.base = TRANSPARENT
    THEN {p \in DOMAIN image.px : image.px[p] # TRANSPARENT}
    ELSE {p \in Grid(image) : ~IsTransparent(image, p)}

WindowImage(w, h, S) ==
    [w |-> w, h |-> h, base |-> TRANSPARENT, px |-> [p \in S |-> "opaque"]]

InitCleanup ==
    \E S \in SUBSET ((1 .. WinW) \X (1 .. WinH)) :
        /\ img = WindowImage(CleanW, CleanH, S)
        /\ img0 = img
        /\ pc = "cleanup"
        /\ cursor = 0
        /\ skip = {}
        /\ match = {}
        /\ seed = <<0, 0>>
        /\ queue = <<>>
        /\ pixels = {}
        /\ evals = <<>>
        /\ areas = <<>>
        /\ assigned = <<>>
        /\ stickers = <<>>
        /\ current_row = 0
        /\ markers = <<>>
        /\ result = "none"
        /\ args = <<>>
        /\ ret = <<>>

CleanupRest == <<img0, match, seed, queue, evals, areas, assigned, stickers,
                 current_row, markers, result, args, ret>>

CleanupFill(image, xy) == FloodFill(image, xy, Opaque(image))

(* if skip.contains(&xy) continue *)
CleanupSkip ==
    /\ pc = "cleanup"
    /\ cursor < img.w * img.h
    /\ CursorXY(img, cursor) \in skip
    /\ cursor' = cursor + 1
    /\ UNCHANGED <<pc, img, skip, pixels>>
    /\ UNCHANGED CleanupRest

(* if color.is_transparent() continue *)
CleanupTransparent ==
    /\ pc = "cleanup"
    /\ cursor < img.w * img.h
    /\ CursorXY(img, cursor) \notin skip
    /\ IsTransparent(img, CursorXY(img, cursor))
    /\ cursor' = cursor + 1
    /\ UNCHANGED <<pc, img, skip, pixels>>
    /\ UNCHANGED CleanupRest

(* the component is below the threshold: every pixel of it is cleared *)
CleanupClear ==
    /\ pc = "cleanup"
    /\ cursor < img.w * img.h
    /\ CursorXY(img, cursor) \notin skip
    /\ ~IsTransparent(img, CursorXY(img, cursor))
    /\ LET fill == CleanupFill(img, CursorXY(img, cursor))
       IN  /\ ~IsAtLeastThisMuchOfImage(Cardinality(fill), img,
                  BACKGROUND_CLEANUP_FACTOR_NUM, BACKGROUND_CLEANUP_FACTOR_DEN)
           /\ pixels' = fill
           /\ img' = PutPixels(img, fill, TRANSPARENT)
           /\ skip' = skip \cup fill
    /\ cursor' = cursor + 1
    /\ UNCHANGED pc
    /\ UNCHANGED CleanupRest

(* the component reaches the threshold: it is left as it is *)
CleanupKeep ==
    /\ pc = "cleanup"
    /\ cursor < img.w * img.h
    /\ CursorXY(img, cursor) \notin skip
    /\ ~IsTransparent(img, CursorXY(img, cursor))
    /\ LET fill == CleanupFill(img, CursorXY(img, cursor))
       IN  /\ IsAtLeastThisMuchOfImage(Cardinality(fill), img,
                  BACKGROUND_CLEANUP_FACTOR_NUM, BACKGROUND_CLEANUP_FACTOR_DEN)
           /\ pixels' = fill
           /\ skip' = skip \cup fill
    /\ cursor' = cursor + 1
    /\ UNCHANGED <<pc, img>>
    /\ UNCHANGED CleanupRest

CleanupDone ==
    /\ pc = "cleanup"
    /\ cursor = img.w * img.h
    /\ pc' = "cleaned"
    /\ UNCHANGED <<img, skip, pixels, cursor>>
    /\ UNCHANGED CleanupRest

NextCleanup ==
    CleanupSkip \/ CleanupTransparent \/ CleanupClear \/ CleanupKeep \/ CleanupDone

SpecCleanup == InitCleanup /\ [][NextCleanup]_vars

(* The 4-connected component of the non-transparent pixel xy. *)
Component(image, xy) == Reachable(xy, Opaque(image))

BelowCleanupThreshold(image, n) ==
    n * BACKGROUND_CLEANUP_FACTOR_DEN < BACKGROUND_CLEANUP_FACTOR_NUM * image.w * image.h

(* C2: after the cleanup pass every pixel of a component of the input that *)
(* had fewer than 0.02 * W * H pixels is transparent, every pixel of a     *)
(* component with at least that many pixels is unchanged (as is every      *)
(* transparent pixel), and no component of the output is below the         *)
(* threshold.                                                              *)
C2_CleanupDropsSmallKeepsLarge ==
    pc = "cleaned" =>
        /\ \A xy \in Grid(img0) :
              IF IsTransparent(img0, xy)
              THEN GetPixel(img, xy) = GetPixel(img0, xy)
              ELSE IF BelowCleanupThreshold(img0, Cardinality(Component(img0, xy)))
                   THEN IsTransparent(img, xy)
                   ELSE GetPixel(img, xy) = GetPixel(img0, xy)
        /\ \A xy \in Opaque(img) :
              ~BelowCleanupThreshold(img, Cardinality(Component(img, xy)))

C2_Witness ==
    /\ pc = "cleaned"
    /\ \E xy \in Opaque(img0) : IsTransparent(img, xy)
    /\ \E xy \in Opaque(img) :
          Cardinality(Component(img0, xy)) * BACKGROUND_CLEANUP_FACTOR_DEN
              = BACKGROUND_CLEANUP_FACTOR_NUM * img.w * img.h

----------------------------------------------------------------------------
(* Area: the rectangle [top, left, width, height].                         *)
AreaNewFromPixels(S) ==
    LET top == SetMin({p[2] : p \in S})
        bottom == SetMax({p[2] : p \in S})
        left == SetMin({p[1] : p \in S})
        right == SetMax({p[1] : p \in S})
    IN  [top |-> top, left |-> left,
         width |-> right - left + 1, height |-> bottom - top + 1]

AreaRight(a) == a.left + a.width - 1
AreaBottom(a) == a.top + a.height - 1
AreaCenter(a) == <<a.left + a.width \div 2, a.top + a.height \div 2>>

AreaContains(a, xy) ==
    /\ xy[1] >= a.left
    /\ xy[1] <= AreaRight(a)
    /\ xy[2] >= a.top
    /\ xy[2] <= AreaBottom(a)

----------------------------------------------------------------------------
(* IdentifiedStickers::new.                                                *)

(* SNAP_STICKERS_THRESHOLD = 0.2 *)
SNAP_STICKERS_THRESHOLD_NUM == 2
SNAP_STICKERS_THRESHOLD_DEN == 10

(* (v.0.center().x - area.center().x).abs() < snap_distance *)
SnapsTo_ByLeft(v, area, image) ==
    Abs(v.area.left - area.left) * SNAP_STICKERS_THRESHOLD_DEN
        < image.w * SNAP_STICKERS_THRESHOLD_NUM

SnapsTo(v, area, image) ==
    Abs(AreaCenter(v.area)[1] - AreaCenter(area)[1]) * SNAP_STICKERS_THRESHOLD_DEN
        < image.w * SNAP_STICKERS_THRESHOLD_NUM

(* A stable sort is an insertion of each element behind the elements that  *)
(* do not come after it.                                                   *)
InsertBehind(sorted, e, NotAfter) ==
    LET n == Cardinality({i \in 1 .. Len(sorted) : sorted[i] \in NotAfter})
    IN  SubSeq(sorted, 1, n) \o <<e>> \o SubSeq(sorted, n + 1, Len(sorted))

(* areas.sort_by_key(|a| a.left()) *)
RECURSIVE SortByLeft(_)
SortByLeft(s) ==
    IF s = <<>> THEN <<>>
    ELSE LET e == s[Len(s)]
             front == SortByLeft(SubSeq(s, 1, Len(s) - 1))
         IN  InsertBehind(front, e,
                 {v \in {front[i] : i \in 1 .. Len(front)} : v.left <= e.left})

(* the comparator of stickers_assigned_to_columns.sort_by *)
ColumnTopNotAfter_ColumnOnly(v, e) == v.column <= e.column

ColumnTopNotAfter(v, e) ==
    \/ v.column < e.column
    \/ v.column = e.column /\ v.area.top <= e.area.top

RECURSIVE SortByColumnTop(_)
SortByColumnTop(s) ==
    IF s = <<>> THEN <<>>
    ELSE LET e == s[Len(s)]
             front == SortByColumnTop(SubSeq(s, 1, Len(s) - 1))
         IN  InsertBehind(front, e,
                 {v \in {front[i] : i \in 1 .. Len(front)} : ColumnTopNotAfter(v, e)})

StickersRest == <<img, img0, match, seed, queue, pixels, evals, skip, markers, result,
                  args, ret>>

(* an area found earlier contains the pixel: continue *)
EnumSkipArea ==
    /\ pc = "enumerate"
    /\ cursor < img.w * img.h
    /\ \E i \in 1 .. Len(areas) : AreaContains(areas[i], CursorXY(img, cursor))
    /\ cursor' = cursor + 1
    /\ UNCHANGED <<pc, areas, assigned, stickers, current_row>>
    /\ UNCHANGED StickersRest

(* the pixel is transparent: continue *)
EnumSkipTransparent ==
    /\ pc = "enumerate"
    /\ cursor < img.w * img.h
    /\ ~\E i \in 1 .. Len(areas) : AreaContains(areas[i], CursorXY(img, cursor))
    /\ IsTransparent(img, CursorXY(img, cursor))
    /\ cursor' = cursor + 1
    /\ UNCHANGED <<pc, areas, assigned, stickers, current_row>>
    /\ UNCHANGED StickersRest

(* flood fill of the non-transparent pixels; its bounding area is pushed *)
EnumComponent ==
    /\ pc = "enumerate"
    /\ cursor < img.w * img.h
    /\ ~\E i \in 1 .. Len(areas) : AreaContains(areas[i], CursorXY(img, cursor))
    /\ ~IsTransparent(img, CursorXY(img, cursor))
    /\ areas' = Append(areas, AreaNewFromPixels(
                    FloodFill(img, CursorXY(img, cursor), Opaque(img))))
    /\ cursor' = cursor + 1
    /\ UNCHANGED <<pc, assigned, stickers, current_row>>
    /\ UNCHANGED StickersRest

(* the loops are over: areas.sort_by_key *)
SortAreas ==
    /\ pc = "enumerate"
    /\ cursor = img.w * img.h
    /\ areas' = SortByLeft(areas)
    /\ pc' = "columns"
    /\ cursor' = 1
    /\ UNCHANGED <<assigned, stickers, current_row>>
    /\ UNCHANGED StickersRest

AssignedColumns == {assigned[i].column : i \in 1 .. Len(assigned)}

(* stickers_assigned_to_columns is empty: column 0 *)
AssignFirst ==
    /\ pc = "columns"
    /\ cursor <= Len(areas)
    /\ assigned = <<>>
    /\ assigned' = <<[area |-> areas[cursor], column |-> 0]>>
    /\ cursor' = cursor + 1
    /\ UNCHANGED <<pc, areas, stickers, current_row>>
    /\ UNCHANGED StickersRest

(* find: the first assigned sticker within the snap distance *)
AssignExisting ==
    /\ pc = "columns"
    /\ cursor <= Len(areas)
    /\ assigned # <<>>
    /\ \E i \in 1 .. Len(assigned) :
          /\ SnapsTo(assigned[i], areas[cursor], img)
          /\ \A j \in 1 .. i - 1 : ~SnapsTo(assigned[j], areas[cursor], img)
          /\ assigned' = Append(assigned,
                 [area |-> areas[cursor], column |-> assigned[i].column])
    /\ cursor' = cursor + 1
    /\ UNCHANGED <<pc, areas, stickers, current_row>>
    /\ UNCHANGED StickersRest

(* none: the highest column plus one *)
AssignNew_SkipsOne ==
    /\ pc = "columns"
    /\ cursor <= Len(areas)
    /\ assigned # <<>>
    /\ \A i \in 1 .. Len(assigned) : ~SnapsTo(assigned[i], areas[cursor], img)
    /\ assigned' = Append(assigned,
           [area |-> areas[cursor], column |-> SetMax(AssignedColumns) + 2])
    /\ cursor' = cursor + 1
    /\ UNCHANGED <<pc, areas, stickers, current_row>>
    /\ UNCHANGED StickersRest

AssignNew ==
    /\ pc = "columns"
    /\ cursor <= Len(areas)
    /\ assigned # <<>>
    /\ \A i \in 1 .. Len(assigned) : ~SnapsTo(assigned[i], areas[cursor], img)
    /\ assigned' = Append(assigned,
           [area |-> areas[cursor], column |-> SetMax(AssignedColumns) + 1])
    /\ cursor' = cursor + 1
    /\ UNCHANGED <<pc, areas, stickers, current_row>>
    /\ UNCHANGED StickersRest

(* the loop is over: stickers_assigned_to_columns.sort_by *)
SortAssigned ==
    /\ pc = "columns"
    /\ cursor > Len(areas)
    /\ assigned' = SortByColumnTop(assigned)
    /\ pc' = "rows"
    /\ cursor' = 1
    /\ UNCHANGED <<areas, stickers, current_row>>
    /\ UNCHANGED StickersRest

(* stickers.last() is None: row 0 *)
RowFirst ==
    /\ pc = "rows"
    /\ cursor <= Len(assigned)
    /\ stickers = <<>>
    /\ stickers' = <<[area |-> assigned[cursor].area,
                      column |-> assigned[cursor].column, row |-> 0]>>
    /\ cursor' = cursor + 1
    /\ UNCHANGED <<pc, areas, assigned, current_row>>
    /\ UNCHANGED StickersRest

(* last.column != column: current_row = 0 *)
RowReset ==
    /\ pc = "rows"
    /\ cursor <= Len(assigned)
    /\ stickers # <<>>
    /\ stickers[Len(stickers)].column # assigned[cursor].column
    /\ current_row' = 0
    /\ stickers' = Append(stickers, [area |-> assigned[cursor].area,
                      column |-> assigned[cursor].column, row |-> 0])
    /\ cursor' = cursor + 1
    /\ UNCHANGED <<pc, areas, assigned>>
    /\ UNCHANGED StickersRest

(* the same column: current_row += 1 *)
RowNext_SameRow ==
    /\ pc = "rows"
    /\ cursor <= Len(assigned)
    /\ stickers # <<>>
    /\ stickers[Len(stickers)].column = assigned[cursor].column
    /\ current_row' = current_row
    /\ stickers' = Append(stickers, [area |-> assigned[cursor].area,
                      column |-> assigned[cursor].column, row |-> current_row])
    /\ cursor' = cursor + 1
    /\ UNCHANGED <<pc, areas, assigned>>
    /\ UNCHANGED StickersRest

RowNext ==
    /\ pc = "rows"
    /\ cursor <= Len(assigned)
    /\ stickers # <<>>
    /\ stickers[Len(stickers)].column = assigned[cursor].column
    /\ current_row' = current_row + 1
    /\ stickers' = Append(stickers, [area |-> assigned[cursor].area,
                      column |-> assigned[cursor].column, row |-> current_row + 1])
    /\ cursor' = cursor + 1
    /\ UNCHANGED <<pc, areas, assigned>>
    /\ UNCHANGED StickersRest

StickersDone ==
    /\ pc = "rows"
    /\ cursor > Len(assigned)
    /\ pc' = "identified"
    /\ UNCHANGED <<cursor, areas, assigned, stickers, current_row>>
    /\ UNCHANGED StickersRest

NextStickers ==
    \/ EnumSkipArea \/ EnumSkipTransparent \/ EnumComponent \/ SortAreas
    \/ AssignFirst \/ AssignExisting \/ AssignNew \/ SortAssigned
    \/ RowFirst \/ RowReset \/ RowNext \/ StickersDone

InitStickers(image) ==
    /\ img = image
    /\ img0 = image
    /\ pc = "enumerate"
    /\ cursor = 0
    /\ areas = <<>>
    /\ assigned = <<>>
    /\ stickers = <<>>
    /\ current_row = 0
    /\ skip = {}
    /\ match = {}
    /\ seed = <<0, 0>>
    /\ queue = <<>>
    /\ pixels = {}
    /\ evals = <<>>
    /\ markers = <<>>
    /\ result = "none"
    /\ args = <<>>
    /\ ret = <<>>

(* Bounds: every image of up to SmallW x SmallH pixels. *)
SmallW == 3
SmallH == 3

InitStickersSmall ==
    \E w \in 1 .. SmallW, h \in 1 .. SmallH :
        \E S \in SUBSET ((0 .. w - 1) \X (0 .. h - 1)) :
            InitStickers(WindowImage(w, h, S))

SpecStickersSmall == InitStickersSmall /\ [][NextStickers]_vars

(* Bounds: a transparent image of BarW x BarH pixels with at most one      *)
(* horizontal bar of opaque pixels, of any extent, in every second row.    *)
BarW == 6
BarH == 5

BarRows == {y \in 0 .. BarH - 1 : y % 2 = 0}

BarPixels(bar, y) == {<<x, y>> : x \in bar[1] .. bar[2]}

(* A bar is <<leftmost x, rightmost x>>; <<0, -1>> is no bar. *)
Bars == {b \in (0 .. BarW - 1) \X (0 .. BarW - 1) : b[1] <= b[2]} \cup {<<0, -1>>}

InitStickersBars ==
    \E bars \in [BarRows -> Bars] :
        InitStickers(WindowImage(BarW, BarH,
            UNION {BarPixels(bars[y], y) : y \in BarRows}))

SpecStickers == InitStickersBars /\ [][NextStickers]_vars

----------------------------------------------------------------------------
(* The components of an image and their tight bounding rectangles, stated  *)
(* without the enumerator.                                                 *)
Components(image) == {Component(image, xy) : xy \in Opaque(image)}

TightBox(S) ==
    [top |-> SetMin({p[2] : p \in S}),
     left |-> SetMin({p[1] : p \in S}),
     width |-> SetMax({p[1] : p \in S}) - SetMin({p[1] : p \in S}) + 1,
     height |-> SetMax({p[2] : p \in S}) - SetMin({p[2] : p \in S}) + 1]

StickerIndex == 1 .. Len(stickers)
CenterX(i) == AreaCenter(stickers[i].area)[1]

(* C3: IdentifiedStickers::new returns exactly one sticker for each        *)
(* 4-connected component of non-transparent pixels, its area the tight     *)
(* bounding rectangle of the component: none skipped, none twice.          *)
C3_OneStickerPerComponent ==
    pc = "identified" =>
        /\ Len(stickers) = Cardinality(Components(img))
        /\ {stickers[i].area : i \in StickerIndex}
               = {TightBox(c) : c \in Components(img)}

(* C4: for every column the stickers of that column carry the rows 0 to    *)
(* n-1, each once, and a smaller row never has a larger top coordinate     *)
(* than a larger row of the same column.                                   *)
C4_RowsPerColumn ==
    pc = "identified" =>
        /\ \A c \in {stickers[i].column : i \in StickerIndex} :
              LET members == {i \in StickerIndex : stickers[i].column = c}
              IN  /\ {stickers[i].row : i \in members} = 0 .. Cardinality(members) - 1
                  /\ \A i, j \in members : i # j => stickers[i].row # stickers[j].row
        /\ \A i, j \in StickerIndex :
              (stickers[i].column = stickers[j].column /\ stickers[i].row < stickers[j].row)
                  => stickers[i].area.top <= stickers[j].area.top

C4_Witness ==
    /\ pc = "identified"
    /\ \E i, j, k \in StickerIndex :
          /\ stickers[i].column = stickers[j].column
          /\ stickers[i].row = 0
          /\ stickers[j].row = 1
          /\ stickers[i].area.left > stickers[j].area.left
          /\ stickers[k].column # stickers[i].column

(* C5: columns are numbered in ascending order of the horizontal centre:   *)
(* a sticker of a smaller column is never centred to the right of a        *)
(* sticker of a larger column.                                             *)
C5_ColumnsAscendByCenter ==
    pc = "identified" =>
        \A i, j \in StickerIndex :
            stickers[i].column < stickers[j].column => CenterX(i) <= CenterX(j)

(* C6 as stated: when the centres of all areas lie within 0.2 * W of one   *)
(* common x, every sticker gets column 0.                                  *)
C6_CommonXSingleColumn ==
    pc = "identified" =>
        ((\E x0 \in 0 .. img.w - 1 : \A i \in StickerIndex :
              Abs(CenterX(i) - x0) * SNAP_STICKERS_THRESHOLD_DEN
                  <= img.w * SNAP_STICKERS_THRESHOLD_NUM)
         => \A i \in StickerIndex : stickers[i].column = 0)

(* C6 as amended: when the centres of all areas are pairwise strictly      *)
(* closer than 0.2 * W, every sticker gets column 0.                       *)
C6_PairwiseCloseSingleColumn ==
    pc = "identified" =>
        ((\A i, j \in StickerIndex :
              Abs(CenterX(i) - CenterX(j)) * SNAP_STICKERS_THRESHOLD_DEN
                  < img.w * SNAP_STICKERS_THRESHOLD_NUM)
         => \A i \in StickerIndex : stickers[i].column = 0)

C6_Witness ==
    /\ pc = "identified"
    /\ Len(stickers) = 3
    /\ \A i, j \in StickerIndex :
          Abs(CenterX(i) - CenterX(j)) * SNAP_STICKERS_THRESHOLD_DEN
              < img.w * SNAP_STICKERS_THRESHOLD_NUM
    /\ \E i, j \in StickerIndex :
          CenterX(i) # CenterX(j) /\ Abs(stickers[i].area.left - stickers[j].area.left) >= 2
    /\ \A i \in StickerIndex : stickers[i].column = 0

----------------------------------------------------------------------------
(* Colours.  A pixel value names an 8-bit RGB colour; the YUV tests of the *)
(* marker predicate are stated on 255000 * y = 299 r + 587 g + 114 b, with *)
(* u = 0.492 (b - y) and v = 0.877 (r - y).                                *)
RGB(value) ==
    CASE value = "white" -> <<255, 255, 255>>
      [] value = "background" -> <<200, 200, 100>>
      [] OTHER -> <<0, 0, 0>>

Luma(rgb) == 299 * rgb[1] + 587 * rgb[2] + 114 * rgb[3]

(* yuv.y() > 0.7 && yuv.u().abs() < 0.15 && yuv.v().abs() < 0.15 *)
MatchColor(rgb) ==
    /\ Luma(rgb) * 10 > 7 * 255000
    /\ 492 * Abs(1000 * rgb[3] - Luma(rgb)) < 15 * 2550000
    /\ 877 * Abs(1000 * rgb[1] - Luma(rgb)) < 15 * 2550000

(* The pixels at which the marker predicate holds. *)
MarkerPixels(image) ==
    {p \in DOMAIN image.px : MatchColor(RGB(image.px[p]))}
        \cup (IF MatchColor(RGB(image.base))
              THEN Grid(image) \ DOMAIN image.px ELSE {})

----------------------------------------------------------------------------
(* Markers::find and Markers::find_marker, one seed of the scan a step;    *)
(* cursor = step_x_i * MARKER_SCAN_STEPS + step_y_i.                       *)

(* MARKER_SCAN_STEP = 0.01, MARKER_SCAN_STEPS = 30, MARKER_THRESHOLD = 0.0001 *)
MARKER_SCAN_STEP_NUM == 1
MARKER_SCAN_STEP_DEN == 100
MARKER_SCAN_STEPS == 30
MARKER_THRESHOLD_NUM == 1
MARKER_THRESHOLD_DEN == 10000

Corners == <<"top_left", "top_right", "bottom_left", "bottom_right">>

(* MARKER_SCAN_STEP * MARKER_SCAN_STEPS as f32 >= 0.5 *)
ConfigurationInvalid ==
    MARKER_SCAN_STEP_NUM * MARKER_SCAN_STEPS * 2 >= MARKER_SCAN_STEP_DEN

(* cmp::max(1, (MARKER_SCAN_STEP * img.width() as f32) as u32) *)
ScanStep(extent) == Max(1, (MARKER_SCAN_STEP_NUM * extent) \div MARKER_SCAN_STEP_DEN)

(* The seed of iteration c of the scan of a corner; a coordinate below 0   *)
(* is the u32 subtraction that overflows.                                  *)
ScanSeed(image, corner, c) ==
    LET sx == (c \div MARKER_SCAN_STEPS) * ScanStep(image.w)
        sy == (c % MARKER_SCAN_STEPS) * ScanStep(image.h)
    IN  << IF corner \in {"top_left", "bottom_left"} THEN sx ELSE image.w - 1 - sx,
           IF corner \in {"top_left", "top_right"} THEN sy ELSE image.h - 1 - sy >>

MarkerFill(image, xy, M) == FloodFill(image, xy, M)

(* !pixels.is_empty() && is_at_least_this_much_of_image(...) *)
IsMarker(image, fill) ==
    /\ fill # {}
    /\ IsAtLeastThisMuchOfImage(Cardinality(fill), image,
           MARKER_THRESHOLD_NUM, MARKER_THRESHOLD_DEN)

(* The eight ordering tests of Markers::find. *)
GeometryViolated_BottomLeftTwice(m) ==
    LET tl == AreaCenter(m["top_left"])
        tr == AreaCenter(m["top_right"])
        bl == AreaCenter(m["bottom_left"])
        br == AreaCenter(m["bottom_right"])
    IN  \/ bl[1] > tr[1] \/ bl[1] > br[1] \/ bl[1] > tr[1] \/ bl[1] > br[1]
        \/ tl[2] > bl[2] \/ tl[2] > br[2] \/ tr[2] > bl[2] \/ tr[2] > br[2]

GeometryViolated(m) ==
    LET tl == AreaCenter(m["top_left"])
        tr == AreaCenter(m["top_right"])
        bl == AreaCenter(m["bottom_left"])
        br == AreaCenter(m["bottom_right"])
    IN  \/ tl[1] > tr[1] \/ tl[1] > br[1] \/ bl[1] > tr[1] \/ bl[1] > br[1]
        \/ tl[2] > bl[2] \/ tl[2] > br[2] \/ tr[2] > bl[2] \/ tr[2] > br[2]

(* match holds MarkerPixels(img): the image is not written during the scan. *)
MarkersRest == <<img, img0, match, seed, queue, pixels, evals, skip, areas,
                 assigned, stickers, current_row, args, ret>>

NextCorner(corner) ==
    CASE corner = "top_left" -> "top_right"
      [] corner = "top_right" -> "bottom_left"
      [] corner = "bottom_left" -> "bottom_right"
      [] corner = "bottom_right" -> "check"

Scanning == pc \in {"top_left", "top_right", "bottom_left", "bottom_right"}

(* the configuration test, then the first find_marker call *)
FindBegin ==
    /\ pc = "find"
    /\ IF ConfigurationInvalid
       THEN pc' = "done" /\ result' = "err_configuration"
       ELSE pc' = "top_left" /\ result' = result
    /\ UNCHANGED <<cursor, markers>>
    /\ UNCHANGED MarkersRest

(* the seed is outside the image: the subtraction overflows (a panic in a  *)
(* build with overflow checks, a wrapped coordinate otherwise) or the      *)
(* coordinate is beyond the far edge, and get_pixel panics                 *)
ScanPanic ==
    /\ Scanning
    /\ cursor < MARKER_SCAN_STEPS * MARKER_SCAN_STEPS
    /\ ScanSeed(img, pc, cursor) \notin Grid(img)
    /\ pc' = "done"
    /\ result' = "panic"
    /\ UNCHANGED <<cursor, markers>>
    /\ UNCHANGED MarkersRest

(* the fill of this seed is empty or too small: next seed *)
ScanMiss ==
    /\ Scanning
    /\ cursor < MARKER_SCAN_STEPS * MARKER_SCAN_STEPS
    /\ ScanSeed(img, pc, cursor) \in Grid(img)
    /\ ~IsMarker(img, MarkerFill(img, ScanSeed(img, pc, cursor), match))
    /\ cursor' = cursor + 1
    /\ UNCHANGED <<pc, markers, result>>
    /\ UNCHANGED MarkersRest

(* return Ok(area) *)
ScanHit ==
    /\ Scanning
    /\ cursor < MARKER_SCAN_STEPS * MARKER_SCAN_STEPS
    /\ ScanSeed(img, pc, cursor) \in Grid(img)
    /\ LET fill == MarkerFill(img, ScanSeed(img, pc, cursor), match)
       IN  /\ IsMarker(img, fill)
           /\ markers' = [c \in DOMAIN markers \cup {pc} |->
                             IF c = pc THEN AreaNewFromPixels(fill) ELSE markers[c]]
    /\ pc' = NextCorner(pc)
    /\ cursor' = 0
    /\ UNCHANGED result
    /\ UNCHANGED MarkersRest

(* Err("not found"), passed on by the ? of Markers::find *)
ScanNotFound ==
    /\ Scanning
    /\ cursor = MARKER_SCAN_STEPS * MARKER_SCAN_STEPS
    /\ pc' = "done"
    /\ result' = "err_not_found"
    /\ UNCHANGED <<cursor, markers>>
    /\ UNCHANGED MarkersRest

(* one of the eight tests fails *)
FindGeometryError ==
    /\ pc = "check"
    /\ GeometryViolated(markers)
    /\ pc' = "done"
    /\ result' = "err_geometry"
    /\ UNCHANGED <<cursor, markers>>
    /\ UNCHANGED MarkersRest

(* Ok(Markers { .. }) *)
FindOk ==
    /\ pc = "check"
    /\ ~GeometryViolated(markers)
    /\ pc' = "done"
    /\ result' = "ok"
    /\ UNCHANGED <<cursor, markers>>
    /\ UNCHANGED MarkersRest

NextMarkers ==
    \/ FindBegin \/ ScanPanic \/ ScanMiss \/ ScanHit \/ ScanNotFound
    \/ FindGeometryError \/ FindOk

(* Bounds: the images are NarrowW x SmallDim, SmallDim x SmallDim and      *)
(* LargeDim x LargeDim, of the background colour but for white shapes.     *)
NarrowW == 20
SmallDim == 40
LargeDim == 101

MarkerSizes == {<<NarrowW, SmallDim>>, <<SmallDim, SmallDim>>, <<LargeDim, LargeDim>>}

Square(x, y) == {x, x + 1} \X {y, y + 1}

(* The white shapes: a 2 x 2 square near each corner, a single pixel       *)
(* nearer to the top left corner, and a pair of long shapes (a line in row *)
(* 0 that starts at x = 29, and the bottom row with a spur up the right    *)
(* edge to y = 29) that the top left and top right scans reach in the      *)
(* opposite order.                                                         *)
Shape(name, w, h) ==
    CASE name = "tl" -> Square(3, 3)
      [] name = "tr" -> Square(w - 5, 3)
      [] name = "bl" -> Square(3, h - 5)
      [] name = "br" -> Square(w - 5, h - 5)
      [] name = "dot" -> {<<1, 1>>}
      [] name = "swap" -> {<<x, 0>> : x \in 29 .. w - 2}
                              \cup {<<x, h - 1>> : x \in 0 .. w - 1}
                              \cup {<<w - 1, y>> : y \in 29 .. h - 1}

ShapeNames == {"tl", "tr", "bl", "br", "dot", "swap"}

MarkerImage(w, h, names) ==
    [w |-> w, h |-> h, base |-> "background",
     px |-> [p \in UNION {Shape(n, w, h) : n \in names} |-> "white"]]

InitMarkers ==
    \E size \in MarkerSizes, names \in SUBSET ShapeNames :
        /\ img = MarkerImage(size[1], size[2], names)
        /\ img0 = img
        /\ pc = "find"
        /\ cursor = 0
        /\ markers = <<>>
        /\ result = "none"
        /\ args = <<>>
        /\ ret = <<>>
        /\ areas = <<>>
        /\ assigned = <<>>
        /\ stickers = <<>>
        /\ current_row = 0
        /\ skip = {}
        /\ match = MarkerPixels(img)
        /\ seed = <<0, 0>>
        /\ queue = <<>>
        /\ pixels = {}
        /\ evals = <<>>

SpecMarkers == InitMarkers /\ [][NextMarkers]_vars

----------------------------------------------------------------------------
AllCorners == {Corners[i] : i \in 1 .. 4}

(* The ordering invariants of a marker set, on the centres of its areas.   *)
Ordered(m) ==
    LET tl == AreaCenter(m["top_left"])
        tr == AreaCenter(m["top_right"])
        bl == AreaCenter(m["bottom_left"])
        br == AreaCenter(m["bottom_right"])
    IN  /\ tl[1] <= tr[1] /\ tl[1] <= br[1]
        /\ bl[1] <= tr[1] /\ bl[1] <= br[1]
        /\ tl[2] <= bl[2] /\ tl[2] <= br[2]
        /\ tr[2] <= bl[2] /\ tr[2] <= br[2]

(* C7: Markers::find returns a marker set only when the ordering           *)
(* invariants hold, and when the four located areas violate one of them it *)
(* returns an error.                                                       *)
C7_MarkerSetIsOrdered ==
    /\ result = "ok" => (DOMAIN markers = AllCorners /\ Ordered(markers))
    /\ (pc = "done" /\ DOMAIN markers = AllCorners /\ ~Ordered(markers))
           => result = "err_geometry"

C7_Witness ==
    /\ pc = "done"
    /\ DOMAIN markers = AllCorners
    /\ AreaCenter(markers["top_left"])[1] > AreaCenter(markers["top_right"])[1]
    /\ result = "err_geometry"

(* The scan of a corner, stated on the connected sets of bright pixels:    *)
(* the iterations whose seed lies in a set of at least 0.0001 * W * H      *)
(* pixels.                                                                 *)
BrightSet(image, xy) == Reachable(xy, MarkerPixels(image))

Qualifying(image, corner) ==
    LET M == MarkerPixels(image)
    IN  {c \in 0 .. MARKER_SCAN_STEPS * MARKER_SCAN_STEPS - 1 :
            LET R == Reachable(ScanSeed(image, corner, c), M)
            IN  /\ R # {}
                /\ Cardinality(R) * MARKER_THRESHOLD_DEN
                       >= MARKER_THRESHOLD_NUM * image.w * image.h}

SearchedCorner ==
    Corners[SetMin({i \in 1 .. 4 : Corners[i] \notin DOMAIN markers})]

(* C8: for each corner find_marker returns the bounding area of the fill   *)
(* of the first seed of the 30 x 30 scan whose fill is non-empty and has   *)
(* at least 0.0001 * W * H pixels, and fails with the not-found error when *)
(* no seed qualifies.                                                      *)
C8_FirstQualifyingSeedOrNotFound ==
    pc = "done" =>
        /\ \A corner \in DOMAIN markers :
              /\ Qualifying(img, corner) # {}
              /\ markers[corner] = TightBox(BrightSet(img,
                     ScanSeed(img, corner, SetMin(Qualifying(img, corner)))))
        /\ (DOMAIN markers # AllCorners /\ result # "err_configuration")
              => IF Qualifying(img, SearchedCorner) = {}
                 THEN result = "err_not_found"
                 ELSE FALSE

(* C8 for the runs in which every seed is inside the image. *)
C8_Aux_NoPanic ==
    result # "panic" => C8_FirstQualifyingSeedOrNotFound

(* C9: Markers::find fails with the configuration error whenever the scan  *)
(* budget N * s is not below W / 2 or H / 2 for the image.                 *)
C9_ConfigurationErrorWhenScansCross ==
    pc = "done" =>
        ((\/ MARKER_SCAN_STEPS * ScanStep(img.w) * 2 >= img.w
          \/ MARKER_SCAN_STEPS * ScanStep(img.h) * 2 >= img.h)
         => result = "err_configuration")

----------------------------------------------------------------------------
(* The foreground segmentation step of extract: a flood fill from the      *)
(* middle of the top edge under the background predicate, then a put_pixel *)
(* of the transparent value on every pixel of the fill.  The predicate     *)
(* reads background_difference at the position only, so match is the set   *)
(* of positions at which it returns true.                                  *)

MiddleOfTopEdge_TopLeftOnly(m) == AreaCenter(m["top_left"])

MiddleOfTopEdge(m) ==
    LET tl == AreaCenter(m["top_left"])
        tr == AreaCenter(m["top_right"])
    IN  <<(tl[1] + tr[1]) \div 2, (tl[2] + tr[2]) \div 2>>

SegmentRest == <<img0, match, queue, evals, cursor, skip, areas, assigned,
                 stickers, current_row, markers, result, args, ret>>

Segment ==
    /\ pc = "segment"
    /\ seed' = MiddleOfTopEdge(markers)
    /\ pixels' = FloodFill(img, seed', match)
    /\ img' = PutPixels(img, pixels', TRANSPARENT)
    /\ pc' = "segmented"
    /\ UNCHANGED SegmentRest

NextSegment == Segment

(* Bounds: SegW x SegH images of the background colour but for at most one *)
(* pixel, which is transparent; the top left marker is the pixel (0, 0)    *)
(* and the top right marker a pixel of the top row or the bottom right     *)
(* pixel.                                                                  *)
SegW == 3
SegH == 2

PointArea(xy) == [top |-> xy[2], left |-> xy[1], width |-> 1, height |-> 1]

SegmentImage(w, h, S) ==
    [w |-> w, h |-> h, base |-> "background", px |-> [p \in S |-> TRANSPARENT]]

InitSegment ==
    \E S \in {T \in SUBSET ((0 .. SegW - 1) \X (0 .. SegH - 1)) : Cardinality(T) <= 1},
       tr \in ((0 .. SegW - 1) \X {0}) \cup {<<SegW - 1, SegH - 1>>} :
        /\ img = SegmentImage(SegW, SegH, S)
        /\ img0 = img
        /\ match \in SUBSET Grid(img)
        /\ markers = [top_left |-> PointArea(<<0, 0>>),
                      top_right |-> PointArea(tr),
                      bottom_left |-> PointArea(<<0, SegH - 1>>),
                      bottom_right |-> PointArea(<<tr[1], SegH - 1>>)]
        /\ pc = "segment"
        /\ seed = <<0, 0>>
        /\ queue = <<>>
        /\ pixels = {}
        /\ evals = <<>>
        /\ cursor = 0
        /\ skip = {}
        /\ areas = <<>>
        /\ assigned = <<>>
        /\ stickers = <<>>
        /\ current_row = 0
        /\ result = "none"
        /\ args = <<>>
        /\ ret = <<>>

SpecSegment == InitSegment /\ [][NextSegment]_vars

(* The pixels the step is to clear, stated on reachability: those reached  *)
(* from the midpoint of the top markers' centres through match.            *)
BackgroundRegion ==
    LET tl == AreaCenter(markers["top_left"])
        tr == AreaCenter(markers["top_right"])
    IN  Reachable(<<(tl[1] + tr[1]) \div 2, (tl[2] + tr[2]) \div 2>>, match)

(* C10: the segmentation step sets to transparent exactly the pixels in    *)
(* the flood fill from middle-of-top-edge under the background predicate;  *)
(* every pixel outside the fill, and every pixel that was transparent      *)
(* already, has the value it had before the step.                          *)
C10_SegmentationClearsExactlyTheFill ==
    pc = "segmented" =>
        /\ img.w = img0.w /\ img.h = img0.h
        /\ \A xy \in Grid(img0) :
              /\ xy \in BackgroundRegion => GetPixel(img, xy) = TRANSPARENT
              /\ xy \notin BackgroundRegion => GetPixel(img, xy) = GetPixel(img0, xy)
              /\ GetPixel(img0, xy) = TRANSPARENT
                     => GetPixel(img, xy) = GetPixel(img0, xy)

C10_Witness ==
    /\ pc = "segmented"
    /\ Cardinality(BackgroundRegion) >= 2
    /\ seed # AreaCenter(markers["top_left"])
    /\ \E xy \in BackgroundRegion : GetPixel(img0, xy) # TRANSPARENT
    /\ \E xy \in Grid(img0) : GetPixel(img0, xy) = TRANSPARENT
    /\ \E xy \in Grid(img0) \ BackgroundRegion :
          /\ xy \in match
          /\ GetPixel(img0, xy) # TRANSPARENT

----------------------------------------------------------------------------
(* Calls of functions that read their arguments only: args holds the       *)
(* arguments, ret the value returned, and the rest of the state is idle.   *)
CallRest == <<img, img0, match, seed, queue, pixels, evals, cursor, skip,
              areas, assigned, stickers, current_row, markers, result>>

InitCall(name, a) ==
    /\ pc = name
    /\ args = a
    /\ ret = <<>>
    /\ img = NewImage(1, 1, TRANSPARENT)
    /\ img0 = img
    /\ match = {}
    /\ seed = <<0, 0>>
    /\ queue = <<>>
    /\ pixels = {}
    /\ evals = <<>>
    /\ cursor = 0
    /\ skip = {}
    /\ areas = <<>>
    /\ assigned = <<>>
    /\ stickers = <<>>
    /\ current_row = 0
    /\ markers = <<>>
    /\ result = "none"

(* An f32 is a number (here a whole number of some unit), an infinity or   *)
(* a NaN.  Every comparison with a NaN is false.                           *)
Num(n) == [kind |-> "num", v |-> n]
NaN == [kind |-> "nan", v |-> 0]
Infinity == [kind |-> "inf", v |-> 1]
NegInfinity == [kind |-> "inf", v |-> -1]

FloatGt(x, n) == IF x.kind = "num" THEN x.v > n ELSE x.kind = "inf" /\ x.v > 0
FloatLt(x, n) == IF x.kind = "num" THEN x.v < n ELSE x.kind = "inf" /\ x.v < 0
FloatAbsGt(x, n) == IF x.kind = "num" THEN Abs(x.v) > n ELSE x.kind = "inf"

----------------------------------------------------------------------------
(* The predicate of the segmentation fill, on the normalised difference of *)
(* one pixel.  Differences and thresholds are in hundredths.               *)
BACKGROUND_DETECTION_FACTOR_L_POSITIVE == 30
BACKGROUND_DETECTION_FACTOR_L_NEGATIVE == 15
BACKGROUND_DETECTION_FACTOR_A_POSITIVE == 15
BACKGROUND_DETECTION_FACTOR_A_NEGATIVE == 15
BACKGROUND_DETECTION_FACTOR_B_POSITIVE == 30
BACKGROUND_DETECTION_FACTOR_B_NEGATIVE == 30

BackgroundPredicate_SymmetricL(difference) ==
    /\ ~FloatAbsGt(difference.diff_l, BACKGROUND_DETECTION_FACTOR_L_POSITIVE)
    /\ ~(FloatGt(difference.diff_a, 0)
            /\ FloatAbsGt(difference.diff_a, BACKGROUND_DETECTION_FACTOR_A_POSITIVE))
    /\ ~(FloatLt(difference.diff_a, 0)
            /\ FloatAbsGt(difference.diff_a, BACKGROUND_DETECTION_FACTOR_A_NEGATIVE))
    /\ ~(FloatGt(difference.diff_b, 0)
            /\ FloatAbsGt(difference.diff_b, BACKGROUND_DETECTION_FACTOR_B_POSITIVE))
    /\ ~(FloatLt(difference.diff_b, 0)
            /\ FloatAbsGt(difference.diff_b, BACKGROUND_DETECTION_FACTOR_B_NEGATIVE))

BackgroundPredicate(difference) ==
    /\ ~(FloatGt(difference.diff_l, 0)
            /\ FloatAbsGt(difference.diff_l, BACKGROUND_DETECTION_FACTOR_L_POSITIVE))
    /\ ~(FloatLt(difference.diff_l, 0)
            /\ FloatAbsGt(difference.diff_l, BACKGROUND_DETECTION_FACTOR_L_NEGATIVE))
    /\ ~(FloatGt(difference.diff_a, 0)
            /\ FloatAbsGt(difference.diff_a, BACKGROUND_DETECTION_FACTOR_A_POSITIVE))
    /\ ~(FloatLt(difference.diff_a, 0)
            /\ FloatAbsGt(difference.diff_a, BACKGROUND_DETECTION_FACTOR_A_NEGATIVE))
    /\ ~(FloatGt(difference.diff_b, 0)
            /\ FloatAbsGt(difference.diff_b, BACKGROUND_DETECTION_FACTOR_B_POSITIVE))
    /\ ~(FloatLt(difference.diff_b, 0)
            /\ FloatAbsGt(difference.diff_b, BACKGROUND_DETECTION_FACTOR_B_NEGATIVE))

PredicateCall ==
    /\ pc = "predicate"
    /\ ret' = BackgroundPredicate(args)
    /\ pc' = "predicate_returned"
    /\ UNCHANGED args
    /\ UNCHANGED CallRest

NextPredicate == PredicateCall

(* Bounds: each channel's difference is one of the values within 1 of 0,   *)
(* of a threshold or of DiffMax, in either sign, an infinity or a NaN.     *)
DiffMax == 32

DiffValues ==
    {Num(n) : n \in {m \in -DiffMax .. DiffMax :
                        \E t \in {0, 15, 30, DiffMax} : Abs(Abs(m) - t) <= 1}}
        \cup {NaN, Infinity, NegInfinity}

InitPredicate ==
    \E l \in DiffValues, a \in DiffValues, b \in DiffValues :
        InitCall("predicate", [diff_l |-> l, diff_a |-> a, diff_b |-> b])

SpecPredicate == InitPredicate /\ [][NextPredicate]_vars

(* x >= 0 implies x <= pos, and x < 0 implies |x| <= neg *)
WithinThresholds(x, pos, neg) ==
    CASE x.kind = "num" -> IF x.v >= 0 THEN x.v <= pos ELSE -x.v <= neg
      [] x.kind = "inf" -> FALSE
      [] x.kind = "nan" -> TRUE

(* C11: the segmentation predicate accepts a pixel if and only if          *)
(* dL <= 0.30 when dL >= 0 and |dL| <= 0.15 when dL < 0, |da| <= 0.15 in   *)
(* both signs, and |db| <= 0.30 in both signs.                             *)
C11_PredicateThresholds ==
    pc = "predicate_returned" =>
        (ret <=> /\ WithinThresholds(args.diff_l, 30, 15)
                 /\ WithinThresholds(args.diff_a, 15, 15)
                 /\ WithinThresholds(args.diff_b, 30, 30))

C11_Witness ==
    /\ pc = "predicate_returned"
    /\ ret = TRUE
    /\ args.diff_l = Num(30)
    /\ args.diff_a = Num(-15)
    /\ args.diff_b = Num(-30)

----------------------------------------------------------------------------
(* Background::analyse, one iteration of its for loop a step.  cursor is   *)
(* the position in the chain of the four EdgeIterators; areas is the       *)
(* HashMap<Area, Color>, a function from the sample windows to colours.    *)
(* A colour is the triple of its 8-bit RGB channels.                       *)
BACKGROUND_ANALYSIS_STEPS == 10

(* iter_top, iter_bottom, iter_left, iter_right: the two ends of each *)
Edges(m) ==
    << <<AreaCenter(m["top_left"]), AreaCenter(m["top_right"])>>,
       <<AreaCenter(m["bottom_left"]), AreaCenter(m["bottom_right"])>>,
       <<AreaCenter(m["top_left"]), AreaCenter(m["bottom_left"])>>,
       <<AreaCenter(m["top_right"]), AreaCenter(m["bottom_right"])>> >>

(* (a + current_step / (steps - 1) * (b - a)) as u32 *)
Interpolate(a, b, step) ==
    (a * (BACKGROUND_ANALYSIS_STEPS - 1) + step * (b - a))
        \div (BACKGROUND_ANALYSIS_STEPS - 1)

EdgeIteratorNext(edge, step) ==
    <<Interpolate(edge[1][1], edge[2][1], step),
      Interpolate(edge[1][2], edge[2][2], step)>>

(* a top or left below 0 is the u32 subtraction that overflows *)
SampleArea(m, xy) ==
    [top |-> xy[2] - m["top_left"].height \div 2,
     left |-> xy[1] - m["top_left"].width \div 2,
     width |-> m["top_left"].width, height |-> m["top_left"].height]

InsideImage(image, a) ==
    /\ a.left >= 0 /\ a.top >= 0
    /\ AreaRight(a) <= image.w - 1 /\ AreaBottom(a) <= image.h - 1

(* for px in left..right + 1 { for py in top..bottom + 1 { .. } } *)
AreaPixels(a) ==
    [k \in 1 .. a.width * a.height |->
        <<a.left + ((k - 1) \div a.height), a.top + ((k - 1) % a.height)>>]

(* The running midpoint (r + value) / 2 of one channel over the pixels,    *)
(* as the fraction num / den, and the final as u8.                         *)
RECURSIVE Midpoint(_, _, _, _)
Midpoint(values, k, num, den) ==
    IF k > Len(values) THEN num \div den
    ELSE Midpoint(values, k + 1, num + values[k] * den, den * 2)

AverageChannel(values) == Midpoint(values, 2, values[1], 1)

AverageColor(image, a) ==
    LET colors == [k \in 1 .. a.width * a.height |->
                      RGB(GetPixel(image, AreaPixels(a)[k]))]
    IN  <<AverageChannel([k \in DOMAIN colors |-> colors[k][1]]),
          AverageChannel([k \in DOMAIN colors |-> colors[k][2]]),
          AverageChannel([k \in DOMAIN colors |-> colors[k][3]])>>

AnalyseEdge == Edges(markers)[cursor \div BACKGROUND_ANALYSIS_STEPS + 1]
AnalyseStep == cursor % BACKGROUND_ANALYSIS_STEPS
AnalyseXY == EdgeIteratorNext(AnalyseEdge, AnalyseStep)
AnalyseInterior == AnalyseStep # 0 /\ AnalyseStep # BACKGROUND_ANALYSIS_STEPS - 1

AnalyseRest == <<img, img0, match, seed, queue, pixels, evals, skip, assigned,
                 stickers, current_row, markers, args, ret>>

(* if i == 0 || i == BACKGROUND_ANALYSIS_STEPS - 1 { continue } *)
AnalyseSkipEnd ==
    /\ pc = "analyse"
    /\ cursor < 4 * BACKGROUND_ANALYSIS_STEPS
    /\ ~AnalyseInterior
    /\ cursor' = cursor + 1
    /\ UNCHANGED <<pc, areas, result>>
    /\ UNCHANGED AnalyseRest

(* the window leaves the image: the subtraction overflows or get_pixel (or *)
(* the unwrap of an average over no pixel) panics                          *)
AnalysePanic ==
    /\ pc = "analyse"
    /\ cursor < 4 * BACKGROUND_ANALYSIS_STEPS
    /\ AnalyseInterior
    /\ ~InsideImage(img, SampleArea(markers, AnalyseXY))
    /\ pc' = "analysed"
    /\ result' = "panic"
    /\ UNCHANGED <<cursor, areas>>
    /\ UNCHANGED AnalyseRest

(* areas.insert(area, color) *)
AnalyseInsert ==
    /\ pc = "analyse"
    /\ cursor < 4 * BACKGROUND_ANALYSIS_STEPS
    /\ AnalyseInterior
    /\ LET area == SampleArea(markers, AnalyseXY)
       IN  /\ InsideImage(img, area)
           /\ areas' = [a \in DOMAIN areas \cup {area} |->
                           IF a = area THEN AverageColor(img, area) ELSE areas[a]]
    /\ cursor' = cursor + 1
    /\ UNCHANGED <<pc, result>>
    /\ UNCHANGED AnalyseRest

(* Ok(Background { areas }) *)
AnalyseDone ==
    /\ pc = "analyse"
    /\ cursor = 4 * BACKGROUND_ANALYSIS_STEPS
    /\ pc' = "analysed"
    /\ result' = "ok"
    /\ UNCHANGED <<cursor, areas>>
    /\ UNCHANGED AnalyseRest

NextAnalyse == AnalyseSkipEnd \/ AnalysePanic \/ AnalyseInsert \/ AnalyseDone

(* Bounds: an AnalyseDim x AnalyseDim image of the background colour with  *)
(* one white pixel; the top left marker is 1 x 1 or 3 x 3 at (0, 0) or     *)
(* (1, 1), the other markers are single pixels 0, ShortEdge or             *)
(* AnalyseDim - 3 to the right of and below its centre, the bottom left    *)
(* one possibly a pixel further left.                                      *)
AnalyseDim == 12
ShortEdge == 7

AnalyseImage == [w |-> AnalyseDim, h |-> AnalyseDim, base |-> "background",
                 px |-> [p \in {<<1, 1>>} |-> "white"]]

InitAnalyse ==
    \E size \in {1, 3}, corner \in {0, 1}, skew \in {0, 1},
       dx \in {0, ShortEdge, AnalyseDim - 3}, dy \in {0, ShortEdge, AnalyseDim - 3} :
        LET tl == [top |-> corner, left |-> corner, width |-> size, height |-> size]
            c == AreaCenter(tl)
        IN  /\ c[1] - skew >= 0
            /\ markers = [top_left |-> tl,
                          top_right |-> PointArea(<<c[1] + dx, c[2]>>),
                          bottom_left |-> PointArea(<<c[1] - skew, c[2] + dy>>),
                          bottom_right |-> PointArea(<<c[1] + dx, c[2] + dy>>)]
            /\ img = AnalyseImage
            /\ img0 = img
            /\ pc = "analyse"
            /\ cursor = 0
            /\ areas = <<>>
            /\ result = "none"
            /\ match = {}
            /\ seed = <<0, 0>>
            /\ queue = <<>>
            /\ pixels = {}
            /\ evals = <<>>
            /\ skip = {}
            /\ assigned = <<>>
            /\ stickers = <<>>
            /\ current_row = 0
            /\ args = <<>>
            /\ ret = <<>>

SpecAnalyse == InitAnalyse /\ [][NextAnalyse]_vars

(* The interpolated point of interior step i of edge e, stated on the      *)
(* markers' centres.                                                       *)
InteriorSteps == 1 .. BACKGROUND_ANALYSIS_STEPS - 2

StepPoint(e, i) ==
    LET a == Edges(markers)[e][1]
        b == Edges(markers)[e][2]
    IN  <<a[1] + (i * (b[1] - a[1])) \div (BACKGROUND_ANALYSIS_STEPS - 1),
          a[2] + (i * (b[2] - a[2])) \div (BACKGROUND_ANALYSIS_STEPS - 1)>>

IsSampleOf(a, e, i) ==
    /\ a.width = markers["top_left"].width
    /\ a.height = markers["top_left"].height
    /\ AreaCenter(a) = StepPoint(e, i)

(* C12: Background::analyse produces one sample for every interior step of *)
(* each of the four edges, 4 * (K - 2) = 32 samples in total and none for  *)
(* the end steps; each window has the marker's width and height and the    *)
(* interpolated step point as its centre.                                  *)
C12_OneSamplePerInteriorStep ==
    pc = "analysed" =>
        /\ result = "ok"
        /\ Cardinality(DOMAIN areas) = 4 * (BACKGROUND_ANALYSIS_STEPS - 2)
        /\ \A e \in 1 .. 4, i \in InteriorSteps :
              \E a \in DOMAIN areas : IsSampleOf(a, e, i)
        /\ \A a \in DOMAIN areas :
              \E e \in 1 .. 4, i \in InteriorSteps : IsSampleOf(a, e, i)

(* C12 for the runs whose 32 windows are inside the image and pairwise     *)
(* different.                                                              *)
C12_Aux_DistinctWindows ==
    (/\ result # "panic"
     /\ \A e1 \in 1 .. 4, e2 \in 1 .. 4, i1 \in InteriorSteps, i2 \in InteriorSteps :
           StepPoint(e1, i1) = StepPoint(e2, i2) => (e1 = e2 /\ i1 = i2))
        => C12_OneSamplePerInteriorStep

----------------------------------------------------------------------------
(* Background::check_color.  A YUV value is held as three whole numbers:   *)
(* y in units of 1/255000, u in units of 0.492/255000 and v in units of    *)
(* 0.877/255000, which is what From<&RGB> for YUV gives for 8-bit          *)
(* channels.  The sums of the source are f32 sums; here they are exact     *)
(* fractions, and a component of the result is the fraction num / den in   *)
(* lowest terms, or NaN.                                                   *)
YuvOfRgb(rgb) ==
    <<Luma(rgb), 1000 * rgb[3] - Luma(rgb), 1000 * rgb[1] - Luma(rgb)>>

RECURSIVE GCD(_, _)
GCD(a, b) == IF b = 0 THEN Abs(a) ELSE GCD(b, a % b)

Ratio(num, den) ==
    LET g == GCD(num, den)
    IN  [kind |-> "num", num |-> num \div g, den |-> den \div g]

(* XY::distance; the square root is exact for the points of the model *)
ISqrt(n) == CHOOSE r \in 0 .. n : r * r <= n /\ n < (r + 1) * (r + 1)

Distance(p, q) ==
    ISqrt((p[1] - q[1]) * (p[1] - q[1]) + (p[2] - q[2]) * (p[2] - q[2]))

(* the weight of a sample is 1.0 / InverseWeight(distance) *)
InverseWeight_Linear(distance) == distance

InverseWeight(distance) == distance * distance * distance

(* The product of the inverse weights of the samples in S: the common      *)
(* denominator of their weights.                                           *)
RECURSIVE InverseWeights(_, _)
InverseWeights(S, xy) ==
    IF S = {} THEN 1
    ELSE LET a == CHOOSE x \in S : TRUE
         IN  InverseWeight(Distance(xy, AreaCenter(a))) * InverseWeights(S \ {a}, xy)

(* The sum over the samples in S of weight * value, times the common       *)
(* denominator; channel 0 is the sum of the weights themselves.            *)
RECURSIVE WeightedSum(_, _, _, _)
WeightedSum(S, samples, xy, channel) ==
    IF S = {} THEN 0
    ELSE LET a == CHOOSE x \in S : TRUE
             value == IF channel = 0 THEN 1 ELSE YuvOfRgb(samples[a])[channel]
         IN  value * InverseWeights(DOMAIN samples \ {a}, xy)
                 + WeightedSum(S \ {a}, samples, xy, channel)

(* A sample at distance 0 has the weight infinity, which makes each sum    *)
(* an infinity or a NaN and each quotient a NaN; YUV::new lets a NaN pass. *)
CheckColor(samples, xy) ==
    IF \E a \in DOMAIN samples : Distance(xy, AreaCenter(a)) = 0
    THEN <<NaN, NaN, NaN>>
    ELSE [channel \in 1 .. 3 |->
            Ratio(WeightedSum(DOMAIN samples, samples, xy, channel),
                  WeightedSum(DOMAIN samples, samples, xy, 0))]

CheckColorCall ==
    /\ pc = "check_color"
    /\ ret' = CheckColor(args.areas, args.xy)
    /\ pc' = "check_color_returned"
    /\ UNCHANGED args
    /\ UNCHANGED CallRest

NextCheckColor == CheckColorCall

(* Bounds: one or two single-pixel samples at (0, 0), (3, 0) and           *)
(* (0, CheckDim), of white, the background colour, black or red; the query *)
(* is a point of the CheckDim x CheckDim square at a whole distance from   *)
(* every sample.                                                           *)
CheckDim == 4

SamplePoints == {<<0, 0>>, <<3, 0>>, <<0, CheckDim>>}
SampleColors == {<<255, 255, 255>>, <<200, 200, 100>>, <<0, 0, 0>>, <<255, 0, 0>>}

WholeDistance(p, q) ==
    LET d == Distance(p, q)
    IN  d * d = (p[1] - q[1]) * (p[1] - q[1]) + (p[2] - q[2]) * (p[2] - q[2])

InitCheckColor ==
    \E S \in {T \in SUBSET SamplePoints : Cardinality(T) \in {1, 2}},
       xy \in (0 .. CheckDim) \X (0 .. CheckDim) :
        \E samples \in [{PointArea(p) : p \in S} -> SampleColors] :
            /\ \A p \in S : WholeDistance(xy, p)
            /\ InitCall("check_color", [areas |-> samples, xy |-> xy])

SpecCheckColor == InitCheckColor /\ [][NextCheckColor]_vars

(* The mean of channel c of the samples with the weights 1 / d^n is       *)
(* PowerSum(.., c, n) / PowerSum(.., 0, n): the weighted sum and the sum   *)
(* of the weights, both multiplied by the product of all d^n.              *)
RECURSIVE PowerProduct(_, _, _)
PowerProduct(S, xy, n) ==
    IF S = {} THEN 1
    ELSE LET a == CHOOSE x \in S : TRUE
             dist == Distance(xy, AreaCenter(a))
         IN  (IF n = 2 THEN dist * dist ELSE dist * dist * dist)
                 * PowerProduct(S \ {a}, xy, n)

RECURSIVE PowerSum(_, _, _, _, _)
PowerSum(S, samples, xy, c, n) ==
    IF S = {} THEN 0
    ELSE LET a == CHOOSE x \in S : TRUE
         IN  (IF c = 0 THEN 1 ELSE YuvOfRgb(samples[a])[c])
                     * PowerProduct(DOMAIN samples \ {a}, xy, n)
                 + PowerSum(S \ {a}, samples, xy, c, n)

IsMeanWithPower(value, samples, xy, n) ==
    \A c \in 1 .. 3 :
        value[c] = Ratio(PowerSum(DOMAIN samples, samples, xy, c, n),
                         PowerSum(DOMAIN samples, samples, xy, 0, n))

AllDistancesPositive ==
    \A a \in DOMAIN args.areas : Distance(args.xy, AreaCenter(a)) > 0

----------------------------------------------------------------------------
(* BackgroundDifference::new.  args gives, for each pixel, the differences *)
(* color - background_color of the three LAB channels as whole numbers of  *)
(* some unit; ret holds max_l, max_a, max_b and distances.  The first pass *)
(* is one pixel a step, the second pass (the map) is one step.             *)

(* x / y in f32, for whole x and y >= 0 *)
Divide(x, y) ==
    IF y # 0 THEN Ratio(x, y)
    ELSE IF x = 0 THEN NaN
    ELSE IF x < 0 THEN NegInfinity ELSE Infinity

DifferenceRest == <<img, img0, match, seed, queue, pixels, evals, skip, areas,
                    assigned, stickers, current_row, markers, result, args>>

(* if distance_l > max_l { max_l = distance_l } .. distances[xi].push(..) *)
DifferenceMeasure ==
    /\ pc = "difference"
    /\ cursor < img.w * img.h
    /\ LET xy == CursorXY(img, cursor)
           distance == args[xy]
       IN  ret' = [max_l |-> IF distance.diff_l > ret.max_l
                             THEN distance.diff_l ELSE ret.max_l,
                   max_a |-> IF distance.diff_a > ret.max_a
                             THEN distance.diff_a ELSE ret.max_a,
                   max_b |-> IF distance.diff_b > ret.max_b
                             THEN distance.diff_b ELSE ret.max_b,
                   distances |-> [p \in DOMAIN ret.distances \cup {xy} |->
                                     IF p = xy THEN distance ELSE ret.distances[p]]]
    /\ cursor' = cursor + 1
    /\ UNCHANGED pc
    /\ UNCHANGED DifferenceRest

(* diff_l: distance.diff_l / max_l, .. ; Ok(Self { distances }) *)
DifferenceNormalise ==
    /\ pc = "difference"
    /\ cursor = img.w * img.h
    /\ ret' = [ret EXCEPT !.distances =
                  [p \in DOMAIN ret.distances |->
                      [diff_l |-> Divide(ret.distances[p].diff_l, ret.max_l),
                       diff_a |-> Divide(ret.distances[p].diff_a, ret.max_a),
                       diff_b |-> Divide(ret.distances[p].diff_b, ret.max_b)]]]
    /\ pc' = "difference_done"
    /\ UNCHANGED cursor
    /\ UNCHANGED DifferenceRest

NextDifference == DifferenceMeasure \/ DifferenceNormalise

(* Bounds: an image of two pixels; the L difference of a pixel is within   *)
(* RawMax of 0, its a difference is -1, 0 or RawMax, its b difference -1   *)
(* or 0.                                                                   *)
RawMax == 2

DifferenceImage == NewImage(1, 2, "opaque")

RawDifferences ==
    [diff_l : -RawMax .. RawMax, diff_a : {-1, 0, RawMax}, diff_b : {-1, 0}]

InitDifference ==
    /\ img = DifferenceImage
    /\ img0 = img
    /\ args \in [Grid(img) -> RawDifferences]
    /\ ret = [max_l |-> 0, max_a |-> 0, max_b |-> 0, distances |-> <<>>]
    /\ pc = "difference"
    /\ cursor = 0
    /\ match = {}
    /\ seed = <<0, 0>>
    /\ queue = <<>>
    /\ pixels = {}
    /\ evals = <<>>
    /\ skip = {}
    /\ areas = <<>>
    /\ assigned = <<>>
    /\ stickers = <<>>
    /\ current_row = 0
    /\ markers = <<>>
    /\ result = "none"

SpecDifference == InitDifference /\ [][NextDifference]_vars

Channels == {"diff_l", "diff_a", "diff_b"}

HasPositive(channel) == \E p \in DOMAIN args : args[p][channel] > 0

IsOne(x) == x.kind = "num" /\ x.num = x.den

AtMostOne(x) == x.kind = "num" /\ x.num <= x.den

(* C14: after BackgroundDifference::new the largest positive normalised    *)
(* difference of each channel is exactly 1; a channel with no positive     *)
(* difference has its zero maximum replaced by 1, so that nothing is       *)
(* divided by zero and every stored value of the channel is finite.        *)
C14_NormalisedMaximumIsOne ==
    pc = "difference_done" =>
        \A channel \in Channels :
            IF HasPositive(channel)
            THEN /\ \E p \in DOMAIN ret.distances : IsOne(ret.distances[p][channel])
                 /\ \A p \in DOMAIN ret.distances : AtMostOne(ret.distances[p][channel])
            ELSE \A p \in DOMAIN ret.distances :
                    ret.distances[p][channel] = Ratio(args[p][channel], 1)

(* C14 for the channels that have a positive difference. *)
C14_Aux_PositiveChannels ==
    pc = "difference_done" =>
        \A channel \in Channels :
            HasPositive(channel) =>
                /\ \E p \in DOMAIN ret.distances : IsOne(ret.distances[p][channel])
                /\ \A p \in DOMAIN ret.distances : AtMostOne(ret.distances[p][channel])

----------------------------------------------------------------------------
(* From<&YUV> for RGB, on the YUV units of YuvOfRgb.  A channel is first   *)
(* computed in thousandths of an 8-bit step (255000 * the f32 of the       *)
(* source); the whole-number arithmetic below and the f32 arithmetic of    *)
(* the source each differ from the exact value by less than RoundingSlack  *)
(* thousandths, so the channel that `as u8` gives is any of the values     *)
(* this slack allows.                                                      *)
RoundingSlack == 5

(* (y + 1.14 * v) * 255, with 1.14 * 0.877 = 0.99978 *)
RedMilli(yuv) == yuv[1] + yuv[3] - (22 * yuv[3]) \div 100000

(* (y - 0.395 * u * 0.581 * v) * 255: the product u * v is taken on        *)
(* sixteenths, 0.395 * 0.581 * 0.492 * 0.877 * 256 / 255000 = 0.00009941   *)
GreenMilli(yuv) ==
    yuv[1] - ((((yuv[2] \div 16) * (yuv[3] \div 16)) \div 10000) * 9941) \div 10000

(* (y + 2.033 * u) * 255, with 2.033 * 0.492 = 1.000236 *)
BlueMilli(yuv) == yuv[1] + yuv[2] + (236 * yuv[2]) \div 1000000

(* f32 as u8: towards zero, saturating *)
AsU8(milli) ==
    IF milli < 0 THEN 0
    ELSE IF milli \div 1000 > 255 THEN 255 ELSE milli \div 1000

AsU8Values(milli) ==
    {AsU8(m) : m \in milli - RoundingSlack .. milli + RoundingSlack}

RgbOfYuv(yuv) ==
    AsU8Values(RedMilli(yuv)) \X AsU8Values(GreenMilli(yuv)) \X AsU8Values(BlueMilli(yuv))

(* let yuv: YUV = (&rgb).into(); let back: RGB = (&yuv).into(); *)
RoundTripCall ==
    /\ pc = "round_trip"
    /\ ret' \in RgbOfYuv(YuvOfRgb(args))
    /\ pc' = "round_trip_returned"
    /\ UNCHANGED args
    /\ UNCHANGED CallRest

NextRoundTrip == RoundTripCall

(* The colours of the model: every channel is one of seven values. *)
ChannelValues == {0, 1, 64, 128, 200, 254, 255}

InitRoundTrip ==
    \E r \in ChannelValues, g \in ChannelValues, b \in ChannelValues :
        InitCall("round_trip", <<r, g, b>>)

SpecRoundTrip == InitRoundTrip /\ [][NextRoundTrip]_vars

(* C15: for every 8-bit RGB colour, RGB -> YUV -> RGB gives a colour whose *)
(* three channels each differ from the original by at most 2.              *)
C15_RoundTripWithinTwo ==
    pc = "round_trip_returned" =>
        \A c \in 1 .. 3 : Abs(ret[c] - args[c]) <= 2

(* C15 for the red and blue channels, and for the green channel of greys. *)
C15_Aux_RedBlueWithinTwo ==
    pc = "round_trip_returned" =>
        /\ Abs(ret[1] - args[1]) <= 2
        /\ Abs(ret[3] - args[3]) <= 2
        /\ (args[1] = args[2] /\ args[2] = args[3]) => Abs(ret[2] - args[2]) <= 2

----------------------------------------------------------------------------
(* main: the command line and the two arms of the match.  args is the      *)
(* subcommand word, the input file of `file`, the files of the source      *)
(* directory and those of them on which extract fails; ret is the branch   *)
(* taken and the files whose stickers were written; result is how the      *)
(* process ends.                                                           *)

(* the subcommands given to clap::Command::subcommand *)
RegisteredSubcommands == {"file", "directory"}

(* paths.par_iter().for_each(|p| extract(p, ..).unwrap()): with no failing *)
(* file every file is processed; a failing file panics in its worker, the  *)
(* files that come after it in the same sequential run of the split are    *)
(* skipped, those of other runs may be done or not, and the panic is       *)
(* passed on to main.                                                      *)
BatchOutcomes(a) ==
    IF a.fails \cap a.paths = {}
    THEN {[branch |-> "batch", processed |-> a.paths, exit |-> "exit_0"]}
    ELSE {[branch |-> "batch", processed |-> done, exit |-> "panic"] :
             done \in SUBSET (a.paths \ a.fails)}

(* extract(file_path, "./", ..)?; Ok(()) *)
FileOutcomes(a) ==
    IF a.input \in a.fails
    THEN {[branch |-> "file", processed |-> {}, exit |-> "exit_1"]}
    ELSE {[branch |-> "file", processed |-> {a.input}, exit |-> "exit_0"]}

(* match matches.subcommand() { Some(("file", ..)) .. Some(("extract", ..)) *)
(* .. _ => unreachable!() }                                                *)
MatchOutcomes(a) ==
    CASE a.subcommand = "file" -> FileOutcomes(a)
      [] a.subcommand = "extract" -> BatchOutcomes(a)
      [] OTHER -> {[branch |-> "unreachable", processed |-> {}, exit |-> "panic"]}

(* command.get_matches() prints the usage and exits with code 2 *)
MainUsageError ==
    /\ pc = "main"
    /\ args.subcommand \notin RegisteredSubcommands
    /\ ret' = [branch |-> "none", processed |-> {}]
    /\ result' = "exit_2"
    /\ pc' = "exited"
    /\ UNCHANGED args
    /\ UNCHANGED <<img, img0, match, seed, queue, pixels, evals, cursor, skip,
                   areas, assigned, stickers, current_row, markers>>

MainMatch ==
    /\ pc = "main"
    /\ args.subcommand \in RegisteredSubcommands
    /\ \E outcome \in MatchOutcomes(args) :
          /\ ret' = [branch |-> outcome.branch, processed |-> outcome.processed]
          /\ result' = outcome.exit
    /\ pc' = "exited"
    /\ UNCHANGED args
    /\ UNCHANGED <<img, img0, match, seed, queue, pixels, evals, cursor, skip,
                   areas, assigned, stickers, current_row, markers>>

NextMain == MainUsageError \/ MainMatch

(* Bounds: up to MaxFiles files in the source directory. *)
MaxFiles == 3

Files == 1 .. MaxFiles

InitMain ==
    \E word \in {"file", "directory", "extract"}, input \in Files,
       paths \in SUBSET Files :
        \E fails \in SUBSET (paths \cup {input}) :
            InitCall("main", [subcommand |-> word, input |-> input,
                              paths |-> paths, fails |-> fails])

SpecMain == InitMain /\ [][NextMain]_vars

(* The words a batch run may be started with: the one clap registers and   *)
(* the one the match arm names.                                            *)
BatchWords == {"directory", "extract"}

(* C16: in batch mode a failure on one file does not stop or cancel the    *)
(* processing of any other file: every other file is processed to          *)
(* completion and its stickers are written.                                *)
C16_FailureDoesNotStopOthers ==
    (pc = "exited" /\ args.subcommand \in BatchWords)
        => args.paths \ args.fails \subseteq ret.processed

(* C17: the batch subcommand with a source and a target directory reaches  *)
(* the batch-processing branch, and with an empty source directory the     *)
(* program exits with code 0 and writes no output file.                    *)
C17_BatchBranchReached ==
    (pc = "exited" /\ args.subcommand \in BatchWords)
        => /\ ret.branch = "batch"
           /\ args.paths = {} => (result = "exit_0" /\ ret.processed = {})

----------------------------------------------------------------------------
(* flood_fill as a running loop: the thread that called it keeps taking    *)
(* iterations while one is possible.                                       *)
SpecFloodFair == InitFlood /\ [][NextFlood]_vars /\ WF_vars(NextFlood)

(* C18: flood_fill terminates for every image, every seed and every        *)
(* predicate: after finitely many iterations the worklist is empty and     *)
(* the loop is left.                                                       *)
C18_FloodFillTerminates == <>(pc = "filled" /\ queue = <<>>)

(* A call that returned having filled the whole of the largest image, the  *)
(* longest run of the loop.                                                *)
C18_Witness ==
    /\ pc = "filled"
    /\ pixels = Grid(img)
    /\ Cardinality(pixels) = MaxW * MaxH

(* A pixel of the result set was expanded once: the predicate was          *)
(* evaluated at it exactly once.                                           *)
C18_Aux_ExpandedOnce == \A p \in pixels : evals[p] = 1

(* C19: during one call of flood_fill the predicate is evaluated at most   *)
(* once for any pixel, the pixels that fail it included.                   *)
C19_PredicateAtMostOncePerPixel == \A p \in Grid(img) : evals[p] <= 1

----------------------------------------------------------------------------
(* The results of Markers::find that are an Err value. *)
FindErrors == {"err_configuration", "err_not_found", "err_geometry"}

(* C20: in find_marker a seed coordinate that falls outside the image      *)
(* makes the search for that corner fail with an error: the call with such *)
(* a seed is not made, no coordinate is computed below zero, and the       *)
(* search ends with an Err value.                                          *)
C20_OutOfImageSeedFailsCorner ==
    [][(/\ Scanning
        /\ cursor < MARKER_SCAN_STEPS * MARKER_SCAN_STEPS
        /\ ScanSeed(img, pc, cursor) \notin Grid(img))
           => (pc' = "done" /\ result' \in FindErrors)]_vars

(* What holds instead: every seed that flood_fill works on to the end is   *)
(* inside the image, and a seed outside it ends the run with a panic.      *)
C20_Aux_PanicIffOutside ==
    (pc = "done" /\ result = "panic")
        <=> (/\ pc = "done"
             /\ result # "err_configuration"
             /\ DOMAIN markers # AllCorners
             /\ cursor < MARKER_SCAN_STEPS * MARKER_SCAN_STEPS
             /\ ScanSeed(img, SearchedCorner, cursor) \notin Grid(img))

----------------------------------------------------------------------------
(* The samples whose window has its centre at the query point. *)
CoincidingSamples ==
    {a \in DOMAIN args.areas : Distance(args.xy, AreaCenter(a)) = 0}

(* C21: when the query point of check_color is the centre of a sample      *)
(* window the result is exactly that sample's colour, and no component of  *)
(* it is NaN.                                                              *)
C21_ZeroDistanceReturnsSample ==
    pc = "check_color_returned" =>
        \A a \in CoincidingSamples :
            /\ \A c \in 1 .. 3 : ret[c] = Ratio(YuvOfRgb(args.areas[a])[c], 1)
            /\ \A c \in 1 .. 3 : ret[c] # NaN

(* What holds instead: the result has a NaN component exactly when the     *)
(* query point is the centre of a sample.                                  *)
C21_Aux_NaNIffCoinciding ==
    pc = "check_color_returned" =>
        ((\E c \in 1 .. 3 : ret[c] = NaN) <=> CoincidingSamples # {})

----------------------------------------------------------------------------
(* A marker set as Markers::find returns it: four bounding boxes of        *)
(* different sets of pixels of the image, in the order of its eight tests. *)
Overlap(a, b) ==
    /\ a.left <= AreaRight(b) /\ b.left <= AreaRight(a)
    /\ a.top <= AreaBottom(b) /\ b.top <= AreaBottom(a)

AcceptedMarkers ==
    /\ DOMAIN markers = AllCorners
    /\ \A c \in AllCorners : InsideImage(img, markers[c])
    /\ \A c \in AllCorners, e \in AllCorners :
          c # e => ~Overlap(markers[c], markers[e])
    /\ ~GeometryViolated(markers)

(* C22: every sample window built by Background::analyse for a marker set  *)
(* accepted by Markers::find lies completely inside the image: top and     *)
(* left are not below zero, right and bottom not beyond W - 1 and H - 1.   *)
C22_WindowsInsideImage ==
    (/\ pc = "analyse"
     /\ cursor < 4 * BACKGROUND_ANALYSIS_STEPS
     /\ AnalyseInterior
     /\ AcceptedMarkers)
        => InsideImage(img, SampleArea(markers, AnalyseXY))

(* What holds instead: analyse ends with a panic exactly when it comes to  *)
(* a window that is not inside the image, and every window it stored is    *)
(* inside.                                                                 *)
C22_Aux_PanicIffOutside ==
    /\ \A a \in DOMAIN areas : InsideImage(img, a)
    /\ pc = "analysed" =>
          (result = "panic" <=>
              \E e \in 1 .. 4, i \in InteriorSteps :
                  ~InsideImage(img, SampleArea(markers, StepPoint(e, i))))

----------------------------------------------------------------------------
(* extract: the name of the file a sticker is saved to, after the stem:    *)
(* format!("{}_{}_{}.png", stem, column, row), the numbers in decimal.     *)
RECURSIVE Decimal(_)
Decimal(n) == IF n < 10 THEN <<n>> ELSE Append(Decimal(n \div 10), n % 10)

OutputName(sticker) ==
    <<"_">> \o Decimal(sticker.column) \o <<"_">> \o Decimal(sticker.row) \o <<".png">>

(* C23: no two stickers returned by IdentifiedStickers::new have the same  *)
(* (column, row) pair, and the names of their output files are pairwise    *)
(* different.                                                              *)
C23_UniqueColumnRow ==
    pc = "identified" =>
        \A i, j \in StickerIndex :
            i # j => /\ <<stickers[i].column, stickers[i].row>>
                          # <<stickers[j].column, stickers[j].row>>
                     /\ OutputName(stickers[i]) # OutputName(stickers[j])

(* Three stickers, two of them in one column and two of them in one row. *)
C23_Witness ==
    /\ pc = "identified"
    /\ Len(stickers) = 3
    /\ {<<stickers[i].column, stickers[i].row>> : i \in StickerIndex}
           = {<<0, 0>>, <<0, 1>>, <<1, 0>>}

(* The stickers assigned before sticker n, in the order of assignment,     *)
(* whose centre x is strictly closer to its centre x than 0.2 * W.         *)
CloseBefore(n) ==
    {i \in 1 .. n - 1 :
        Abs(AreaCenter(assigned[i].area)[1] - AreaCenter(assigned[n].area)[1])
                * SNAP_STICKERS_THRESHOLD_DEN
            < img.w * SNAP_STICKERS_THRESHOLD_NUM}

(* C24: the first sticker gets column 0; a later sticker gets the column   *)
(* of the first earlier sticker, in assignment order, whose centre x is    *)
(* strictly closer than 0.2 * W, or else the highest column so far plus    *)
(* one; the columns in use are 0 .. k-1 with no gap.                       *)
C24_ColumnsContiguous ==
    /\ pc = "columns" =>
          \A n \in 1 .. Len(assigned) :
              assigned[n].column =
                  IF n = 1 THEN 0
                  ELSE IF CloseBefore(n) # {}
                       THEN assigned[SetMin(CloseBefore(n))].column
                       ELSE SetMax({assigned[i].column : i \in 1 .. n - 1}) + 1
    /\ AssignedColumns = 0 .. Cardinality(AssignedColumns) - 1
    /\ pc = "identified" =>
          {stickers[i].column : i \in StickerIndex}
              = 0 .. Cardinality({stickers[i].column : i \in StickerIndex}) - 1

(* The third sticker takes column 0 from the first one, which is not the   *)
(* one assigned last, after the second one opened column 1.                *)
C24_Witness ==
    /\ pc = "columns"
    /\ Len(assigned) = 3
    /\ assigned[2].column = 1
    /\ assigned[3].column = 0
    /\ CloseBefore(3) = {1, 2}

====
